---- MODULE Spec2Model ----
(***************************************************************************)
(* A model of src/printf.c: myPrintf renders a template into a             *)
(* caller-supplied buffer of out_size bytes.  One render call is one       *)
(* behaviour: Init is the state on entry to myPrintf, every iteration of   *)
(* its loop (one nextToken call) is one action, the left-justification     *)
(* fill loop of padString is stepped one iteration at a time, and Finish   *)
(* is the loop exit with the null termination and the return.              *)
(*                                                                         *)
(* Characters are one-character strings.  Buffer indices, fmtPos and       *)
(* outPos are 0-based as in the C code; TLA+ sequences are 1-based, so     *)
(* fmt[i] of the code is fmt[i + 1] here.  An unsigned int is identified   *)
(* with its 32-bit two's-complement reading, so the value 2^32 - 2 of the  *)
(* code appears as -2: as a buffer index both lie outside 0 .. out_size-1. *)
(*                                                                         *)
(* A long or unsigned long of the code is a word: its 64 bits as four      *)
(* 16-bit limbs, most significant first.  Integer arguments are words as   *)
(* the caller passed them (an int sign-extended, an unsigned int           *)
(* zero-extended); va_arg of an int or unsigned int reads the low 32 bits. *)
(*                                                                         *)
(* The platform is the x86-64 System V one the code is built on: long has  *)
(* 64 bits, char is signed, and the va_list that myPrintf passes to        *)
(* nextToken is shared with it, so arguments are consumed in order.        *)
(*                                                                         *)
(* A double is [cls, neg, num, den]: a NaN or an infinity with its sign    *)
(* bit, or the finite value (-1)^neg * num / den.  The calls explored pass *)
(* multiples of 1/4 and precisions up to 6, for which the floating-point   *)
(* operations of the code are exact or round as the rational does.         *)
(***************************************************************************)
EXTENDS Integers, Sequences, FiniteSets, TLC

VARIABLES
    fmt,            \* the template (without its terminating null)
    args,           \* the variadic arguments, in order
    out_size,       \* capacity of the caller's buffer
    output,         \* the caller's buffer: index 0 .. out_size-1 -> character
    written,        \* every index the call has stored to through `output`
    dropped,        \* TRUE once printChar has refused a character (buffer full)
    fmtPos,         \* myPrintf: read position in fmt
    outPos,         \* myPrintf: write offset
    argPos,         \* number of arguments consumed from the va_list
    ret,            \* myPrintf: result of the last nextToken call
    ps,             \* nextToken: the printSpecification of the current directive
    tok,            \* what the last nextToken call was given (kind, positions, argument)
    paddingWritten, \* padString: fill characters written by the left-justify loop
    paddingAmount,  \* padString: fill characters the left-justify loop must write
    pc              \* "loop" | "padLeft" | "done" | "crashed"

vars == <<fmt, args, out_size, output, written, dropped, fmtPos, outPos, argPos,
          ret, ps, tok, paddingWritten, paddingAmount, pc>>

----------------------------------------------------------------------------
(* Bounds of the model *)

MaxCap == 12

\* the field width written as a literal in the templates (one digit)
FieldWidth == 4

NUL == "NUL"
JUNK == "~"

----------------------------------------------------------------------------
(* C integer arithmetic on 64-bit words *)

ZeroWord == <<0, 0, 0, 0>>

\* value < 0 of a long
IsNegative(v) == v[1] >= 32768

\* -value of a long (two's complement, wraps at 2^64)
Negate(v) ==
    LET n4 == (65535 - v[4]) + 1
        n3 == (65535 - v[3]) + (n4 \div 65536)
        n2 == (65535 - v[2]) + (n3 \div 65536)
        n1 == (65535 - v[1]) + (n2 \div 65536)
    IN  <<n1 % 65536, n2 % 65536, n3 % 65536, n4 % 65536>>

\* value / b and value % b of an unsigned long, by long division over the limbs
UDivMod(v, b) ==
    LET c1 == v[1]
        c2 == (c1 % b) * 65536 + v[2]
        c3 == (c2 % b) * 65536 + v[3]
        c4 == (c3 % b) * 65536 + v[4]
    IN  [quot |-> <<c1 \div b, c2 \div b, c3 \div b, c4 \div b>>, rem |-> c4 % b]

\* value / b of a long: the quotient is truncated towards zero
CQuot(v, b) ==
    IF IsNegative(v) THEN Negate(UDivMod(Negate(v), b).quot) ELSE UDivMod(v, b).quot

\* value % b of a long, as an int: the remainder has the sign of value
CRem(v, b) ==
    IF IsNegative(v) THEN -(UDivMod(Negate(v), b).rem) ELSE UDivMod(v, b).rem

\* (long) of an int
IntToLong(i) ==
    LET l0 == i % 65536
        l1 == ((i - l0) \div 65536) % 65536
        ext == IF i < 0 THEN 65535 ELSE 0
    IN  <<ext, ext, l1, l0>>

\* the int held by a word that is the sign extension of 32 bits
LongToInt(v) ==
    IF v[3] >= 32768 THEN (v[3] - 65536) * 65536 + v[4] ELSE v[3] * 65536 + v[4]

ToSChar(v) ==
    LET b == v[4] % 256
    IN  IF b >= 128 THEN <<65535, 65535, 65535, 65280 + b>> ELSE <<0, 0, 0, b>>

ToShort(v) == IF v[4] >= 32768 THEN <<65535, 65535, 65535, v[4]>> ELSE <<0, 0, 0, v[4]>>

ToInt(v) == IF v[3] >= 32768 THEN <<65535, 65535, v[3], v[4]>> ELSE <<0, 0, v[3], v[4]>>

ToUChar(v) == <<0, 0, 0, v[4] % 256>>

ToUShort(v) == <<0, 0, 0, v[4]>>

ToUInt(v) == <<0, 0, v[3], v[4]>>

----------------------------------------------------------------------------
(* The template as the code reads it *)

FmtAt(i) == IF i < Len(fmt) THEN fmt[i + 1] ELSE NUL

IsDigitChar(c) == c \in {"0", "1", "2", "3", "4", "5", "6", "7", "8", "9"}

DigitVal(c) ==
    CASE c = "0" -> 0 [] c = "1" -> 1 [] c = "2" -> 2 [] c = "3" -> 3
      [] c = "4" -> 4 [] c = "5" -> 5 [] c = "6" -> 6 [] c = "7" -> 7
      [] c = "8" -> 8 [] c = "9" -> 9

initPrintSpec ==
    [leftJustify |-> FALSE, forcePlusMinus |-> FALSE,
     spacePrefixPositiveNumber |-> FALSE, zeroPrefixedOrForceDecimal |-> FALSE,
     leftPadWithZeroes |-> FALSE,
     length |-> "LENGTH_DEFAULT", precision |-> -1, s |-> "SPEC_DEFAULT",
     width |-> -1]

----------------------------------------------------------------------------
(* Directive parser: the scanning part of nextToken *)

RECURSIVE ReadUnsignedLoop(_, _, _)
ReadUnsignedLoop(p, val, foundValue) ==
    IF IsDigitChar(FmtAt(p))
    THEN ReadUnsignedLoop(p + 1, val * 10 + DigitVal(FmtAt(p)), TRUE)
    ELSE [foundValue |-> foundValue, val |-> val, pos |-> p]

\* the position is advanced only over digits; val is meaningful only if foundValue
readUnsigned(p) == ReadUnsignedLoop(p, 0, FALSE)

RECURSIVE ReadFlags(_, _)
ReadFlags(p, spec) ==
    LET peek == FmtAt(p)
    IN  CASE peek = "-" -> ReadFlags(p + 1, [spec EXCEPT !.leftJustify = TRUE])
          [] peek = "+" -> ReadFlags(p + 1, [spec EXCEPT !.forcePlusMinus = TRUE])
          [] peek = " " -> ReadFlags(p + 1, [spec EXCEPT !.spacePrefixPositiveNumber = TRUE])
          [] peek = "#" -> ReadFlags(p + 1, [spec EXCEPT !.zeroPrefixedOrForceDecimal = TRUE])
          [] peek = "0" -> ReadFlags(p + 1, [spec EXCEPT !.leftPadWithZeroes = TRUE])
          [] OTHER -> [spec |-> spec, pos |-> p]

\* "+" and " " together: the space flag is ignored
FixSpaceFlag(spec) ==
    IF spec.spacePrefixPositiveNumber /\ spec.forcePlusMinus
    THEN [spec EXCEPT !.spacePrefixPositiveNumber = FALSE]
    ELSE spec

\* width: "*" takes the next argument, otherwise an optional decimal literal
ReadWidth(p, a, spec) ==
    IF FmtAt(p) = "*"
    THEN [spec |-> [spec EXCEPT !.width = LongToInt(ToInt(args[a + 1]))], pos |-> p + 1, argPos |-> a + 1]
    ELSE LET r == readUnsigned(p)
         IN  [spec |-> IF r.foundValue THEN [spec EXCEPT !.width = r.val] ELSE spec,
              pos |-> r.pos, argPos |-> a]

\* precision: "." then "*" or an optional decimal literal; a bare "." is 0
ReadPrecision(p, a, spec) ==
    IF FmtAt(p) # "."
    THEN [spec |-> spec, pos |-> p, argPos |-> a]
    ELSE IF FmtAt(p + 1) = "*"
         THEN [spec |-> [spec EXCEPT !.precision = LongToInt(ToInt(args[a + 1]))],
               pos |-> p + 2, argPos |-> a + 1]
         ELSE LET r == readUnsigned(p + 1)
              IN  [spec |-> [spec EXCEPT !.precision =
                                 IF r.foundValue THEN r.val ELSE 0],
                   pos |-> r.pos, argPos |-> a]

RECURSIVE ReadLength(_, _)
ReadLength(p, len) ==
    LET peek == FmtAt(p)
    IN  CASE peek = "h" /\ len = "LENGTH_DEFAULT" -> ReadLength(p + 1, "h")
          [] peek = "h" /\ len = "h" -> ReadLength(p + 1, "hh")
          [] peek = "l" /\ len = "LENGTH_DEFAULT" -> ReadLength(p + 1, "l")
          [] peek = "l" /\ len = "h" -> ReadLength(p + 1, "hl")
          [] OTHER -> [length |-> len, pos |-> p]

SpecifierOf(c) ==
    CASE c = "g" -> "SPEC_LOWER_G" [] c = "G" -> "SPEC_UPPER_G"
      [] c = "f" -> "SPEC_LOWER_F" [] c = "F" -> "SPEC_UPPER_F"
      [] c = "e" -> "SPEC_LOWER_E" [] c = "E" -> "SPEC_UPPER_E"
      [] c = "s" -> "SPEC_S" [] c = "c" -> "SPEC_C" [] c = "o" -> "SPEC_O"
      [] c \in {"d", "i"} -> "SPEC_D" [] c = "u" -> "SPEC_U"
      [] c = "x" -> "SPEC_LOWER_X" [] c = "X" -> "SPEC_UPPER_X"
      [] OTHER -> "SPEC_DEFAULT"

\* mutant: the flags, width and precision of the previous directive are kept
ParseDirectiveKeepingSpec(p, a) ==
    LET fl == ReadFlags(p, ps)
        w  == ReadWidth(fl.pos, a, FixSpaceFlag(fl.spec))
        pr == ReadPrecision(w.pos, w.argPos, w.spec)
        ln == ReadLength(pr.pos, "LENGTH_DEFAULT")
        c  == FmtAt(ln.pos)
    IN  [spec |-> [pr.spec EXCEPT !.length = ln.length, !.s = SpecifierOf(c)],
         specifier |-> c, pos |-> ln.pos + 1, argPos |-> pr.argPos]

\* The directive whose "%" is at p - 1, arguments taken from index a on:
\* Flags -> Width -> Precision -> Length -> Specifier.  pos is fmtPos after
\* the specifier character has been consumed.
ParseDirective(p, a) ==
    LET fl == ReadFlags(p, initPrintSpec)
        w  == ReadWidth(fl.pos, a, FixSpaceFlag(fl.spec))
        pr == ReadPrecision(w.pos, w.argPos, w.spec)
        ln == ReadLength(pr.pos, "LENGTH_DEFAULT")
        c  == FmtAt(ln.pos)
    IN  [spec |-> [pr.spec EXCEPT !.length = ln.length, !.s = SpecifierOf(c)],
         specifier |-> c, pos |-> ln.pos + 1, argPos |-> pr.argPos]

----------------------------------------------------------------------------
(* The output cursor.  A machine m is [out, pos, wr, drop, cap]: the        *)
(* buffer, the write offset, the indices stored to, whether output has     *)
(* been cut, and the capacity passed along as outSize.                     *)

CurM == [out |-> output, pos |-> outPos, wr |-> written, drop |-> dropped,
         cap |-> out_size]

\* output[idx] = c.  A store outside the buffer is recorded in wr and leaves
\* the buffer as it is (it hits memory the model does not describe).
Store(m, idx, c) ==
    [m EXCEPT !.out = IF idx \in DOMAIN m.out THEN [m.out EXCEPT ![idx] = c] ELSE m.out,
              !.wr = @ \cup {idx}]

Load(m, idx) == IF idx \in DOMAIN m.out THEN m.out[idx] ELSE JUNK

\* mutant: the character is stored and counted whether there is room or not
printCharUnguarded(m, charToPrint) ==
    [Store(m, m.pos, charToPrint) EXCEPT !.pos = m.pos + 1]

printChar(m, charToPrint) ==
    IF m.pos >= m.cap
    THEN [m EXCEPT !.drop = TRUE]
    ELSE [Store(m, m.pos, charToPrint) EXCEPT !.pos = m.pos + 1]

DigitChars == <<"0", "1", "2", "3", "4", "5", "6", "7", "8", "9",
                "a", "b", "c", "d", "e", "f">>

UpperDigitChars == <<"0", "1", "2", "3", "4", "5", "6", "7", "8", "9",
                     "A", "B", "C", "D", "E", "F">>

printDigit(m, digit, upperCase) ==
    LET d == IF digit < 0 THEN -digit ELSE digit
    IN  IF d > 15 THEN m
        ELSE printChar(m, IF upperCase THEN UpperDigitChars[d + 1] ELSE DigitChars[d + 1])

RECURSIVE ReverseLoop(_, _, _, _)
ReverseLoop(m, startPos, i, strLength) ==
    IF i >= strLength \div 2 THEN m
    ELSE LET laterPos == m.pos - i - 1
             tmp == Load(m, laterPos)
             m1 == Store(m, laterPos, Load(m, startPos + i))
         IN  ReverseLoop(Store(m1, startPos + i, tmp), startPos, i + 1, strLength)

reverseString(m, startPos) == ReverseLoop(m, startPos, 0, m.pos - startPos)

----------------------------------------------------------------------------
(* Formatters.  Each returns a result [m, ret, left, amount]: the machine   *)
(* after the call and its return value, or, with left = TRUE, the machine  *)
(* at the head of padString's left-justify loop, which the actions         *)
(* PadLeftStep and PadLeftExit then run with `amount` characters to write. *)

Returned(m, r) == [m |-> m, ret |-> r, left |-> FALSE, amount |-> 0]

EntersLeftPad(m, amt) == [m |-> m, ret |-> 0, left |-> TRUE, amount |-> amt]

RECURSIVE PadWriteLoop(_, _, _, _)
PadWriteLoop(m, paddingChar, i, amt) ==
    IF i >= amt THEN m
    ELSE PadWriteLoop(printChar(m, paddingChar), paddingChar, i + 1, amt)

\* for (i = existingSize; i >= 0; i--) output[from + paddingAmount] = output[from]
RECURSIVE ShiftLoop(_, _, _, _)
ShiftLoop(m, stringStart, i, amt) ==
    IF i < 0 THEN m
    ELSE LET from == stringStart + i
             to == from + amt
         IN  ShiftLoop(Store(m, to, Load(m, from)), stringStart, i - 1, amt)

RECURSIVE FillLoop(_, _, _, _, _)
FillLoop(m, stringStart, paddingChar, i, amt) ==
    IF i >= amt THEN m
    ELSE FillLoop(Store(m, stringStart + i, paddingChar), stringStart, paddingChar,
                  i + 1, amt)

\* mutant: the "0" flag zero-fills strings too
PadRightZeroFillingStrings(m, existingSize, amt, spec) ==
    LET paddingChar == IF spec.leftPadWithZeroes THEN "0" ELSE " "
        startingPos == m.pos
        m1 == PadWriteLoop(m, paddingChar, 0, amt)
        padWritten == m1.pos - startingPos
        stringStart == startingPos - existingSize
    IN  IF amt # padWritten
        THEN Returned(m1, -1)
        ELSE Returned(FillLoop(ShiftLoop(m1, stringStart, existingSize, amt),
                               stringStart, paddingChar, 0, amt), 0)

PadRight(m, existingSize, amt, spec) ==
    LET paddingChar == IF spec.leftPadWithZeroes /\ spec.s # "SPEC_S" THEN "0" ELSE " "
        startingPos == m.pos
        m1 == PadWriteLoop(m, paddingChar, 0, amt)
        padWritten == m1.pos - startingPos
        stringStart == startingPos - existingSize
    IN  IF amt # padWritten
        THEN Returned(m1, -1)
        ELSE Returned(FillLoop(ShiftLoop(m1, stringStart, existingSize, amt),
                               stringStart, paddingChar, 0, amt), 0)

\* mutant: the shift takes the sign along, so the fill lands before it
padStringShiftingSign(m, existingSize, existingPrefixChars, spec) ==
    LET amt == spec.width - existingSize - existingPrefixChars
    IN  IF amt <= 0 THEN Returned(m, 0)
        ELSE IF spec.leftJustify THEN EntersLeftPad(m, amt)
        ELSE PadRight(m, existingSize + existingPrefixChars, amt, spec)

padString(m, existingSize, existingPrefixChars, spec) ==
    LET amt == spec.width - existingSize - existingPrefixChars
    IN  IF amt <= 0 THEN Returned(m, 0)
        ELSE IF spec.leftJustify THEN EntersLeftPad(m, amt)
        ELSE PadRight(m, existingSize, amt, spec)

\* while (printed < max && *outPos < outSize) { if (string[printed] == 0) break; ... }
\* max is compared as a size_t, so a negative max never stops the loop.
RECURSIVE StringLoop(_, _, _, _)
StringLoop(m, string, printed, max) ==
    IF (max >= 0 /\ printed >= max) \/ printed >= Len(string) THEN m
    ELSE IF m.pos >= m.cap THEN [m EXCEPT !.drop = TRUE]
    ELSE StringLoop(printChar(m, string[printed + 1]), string, printed + 1, max)

\* mutant: the string is not padded to the width
printStringUnpadded(m, spec, string) ==
    LET max == IF spec.precision = -1 THEN m.cap - m.pos ELSE spec.precision
    IN  Returned(StringLoop(m, string, 0, max), 0)

printString(m, spec, string) ==
    LET max == IF spec.precision = -1 THEN m.cap - m.pos ELSE spec.precision
        m1 == StringLoop(m, string, 0, max)
    IN  padString(m1, m1.pos - m.pos, 0, spec)

printSign(m, spec, isPositive) ==
    IF spec.forcePlusMinus \/ ~isPositive
    THEN printChar(m, IF isPositive THEN "+" ELSE "-")
    ELSE IF isPositive /\ spec.spacePrefixPositiveNumber
    THEN printChar(m, " ")
    ELSE m

\* printUnsigned: do { printDigit(value % base); value = value / base; } while (value != 0);
RECURSIVE DigitLoop(_, _, _, _)
DigitLoop(m, value, base, upperCase) ==
    LET d == UDivMod(value, base)
        m1 == printDigit(m, d.rem, upperCase)
    IN  IF d.quot = ZeroWord THEN m1 ELSE DigitLoop(m1, d.quot, base, upperCase)

\* printLong: do { printDigit(value % 10); value = value / 10; } while (value != 0);
RECURSIVE SignedDigitLoop(_, _)
SignedDigitLoop(m, value) ==
    LET m1 == printDigit(m, CRem(value, 10), FALSE)
        v1 == CQuot(value, 10)
    IN  IF v1 = ZeroWord THEN m1 ELSE SignedDigitLoop(m1, v1)

\* The function ends without a return statement: the value its callers test
\* with "< 0" is indeterminate, and is an input of the actions that call it.
printUnsigned(m, value, base, upperCase) ==
    reverseString(DigitLoop(m, value, base, upperCase), m.pos)

\* mutant: a value too large for the declared width saturates instead of wrapping
wrapValueToSizeSaturating(spec, value) ==
    CASE spec.length = "hh" ->
            IF value[1] + value[2] + value[3] > 0 \/ value[4] > 255
            THEN <<0, 0, 0, 255>> ELSE value
      [] spec.length = "h" ->
            IF value[1] + value[2] + value[3] > 0 THEN <<0, 0, 0, 65535>> ELSE value
      [] spec.length = "l" -> value
      [] OTHER -> IF value[1] + value[2] > 0 THEN <<0, 0, 65535, 65535>> ELSE value

wrapValueToSize(spec, value) ==
    CASE spec.length = "hh" -> ToUChar(value)
      [] spec.length = "h" -> ToUShort(value)
      [] spec.length = "l" -> value
      [] OTHER -> ToUInt(value)

printOctal(m, spec, arg, garbageNegative) ==
    LET value == wrapValueToSize(spec, arg)
        m1 == printUnsigned(m, value, 8, FALSE)
    IN  IF value = ZeroWord /\ spec.precision = 0 THEN Returned(m, 0)
        ELSE IF garbageNegative THEN Returned(m1, -1)
        ELSE padString(m1, m1.pos - m.pos, 0, spec)

printUnsignedLong(m, spec, arg, garbageNegative) ==
    LET value == wrapValueToSize(spec, arg)
        m1 == printUnsigned(m, value, 10, FALSE)
    IN  IF value = ZeroWord /\ spec.precision = 0 THEN Returned(m, 0)
        ELSE IF garbageNegative THEN Returned(m1, -1)
        ELSE padString(m1, m1.pos - m.pos, 0, spec)

printHex(m, spec, arg, garbageNegative) ==
    LET value == wrapValueToSize(spec, arg)
        m1 == IF spec.zeroPrefixedOrForceDecimal
              THEN printChar(printChar(m, "0"),
                             IF spec.s = "SPEC_LOWER_X" THEN "x" ELSE "X")
              ELSE m
        m2 == printUnsigned(m1, value, 16, spec.s = "SPEC_UPPER_X")
    IN  IF value = ZeroWord /\ spec.precision = 0 THEN Returned(m, 0)
        ELSE IF garbageNegative THEN Returned(m2, -1)
        ELSE padString(m2, m2.pos - m1.pos, 0, spec)

\* the length modifier's cast of the signed argument
SignedCast(spec, arg) ==
    CASE spec.length = "hh" -> ToSChar(arg)
      [] spec.length = "h" -> ToShort(arg)
      [] spec.length = "l" -> arg
      [] OTHER -> ToInt(arg)

printLong(m, spec, arg) ==
    LET value == SignedCast(spec, arg)
        m1 == printSign(m, spec, ~IsNegative(value))
        signChars == m1.pos - m.pos
        m2 == reverseString(SignedDigitLoop(m1, value), m1.pos)
    IN  IF value = ZeroWord /\ spec.precision = 0 THEN Returned(m, 0)
        ELSE padString(m2, m2.pos - m1.pos, signChars, spec)

----------------------------------------------------------------------------
(* Floating point *)

RECURSIVE Pow10(_)
Pow10(n) == IF n <= 0 THEN 1 ELSE 10 * Pow10(n - 1)

\* roundf(a / b) for a >= 0 and b > 0: nearest integer, halves away from zero
RoundHalfAway(a, b) == (2 * a + b) \div (2 * b)

\* floor(log10(fabs(value))) of a finite value of magnitude num / den >= 1
RECURSIVE Log10Floor(_, _)
Log10Floor(num, den) == IF num < 10 * den THEN 0 ELSE 1 + Log10Floor(num, 10 * den)

\* for (i = 0; i < precision; i++): the digits of the scaled fraction, least
\* significant first; g and G skip zero digits until a digit was printed
RECURSIVE FracLoop(_, _, _, _, _, _)
FracLoop(m, fracValue, i, precision, printed, isSpecG) ==
    IF i >= precision THEN [m |-> m, printed |-> printed]
    ELSE LET digit == (fracValue \div Pow10(i)) % 10
         IN  IF digit = 0 /\ printed = 0 /\ isSpecG
             THEN FracLoop(m, fracValue, i + 1, precision, printed, isSpecG)
             ELSE FracLoop(printDigit(m, digit, FALSE), fracValue, i + 1, precision,
                           printed + 1, isSpecG)

\* do { printDigit(intValue % 10); intValue = intValue / 10 } while (intValue != 0.0)
RECURSIVE FloatIntLoop(_, _)
FloatIntLoop(m, intValue) ==
    LET m1 == printDigit(m, intValue % 10, FALSE)
    IN  IF intValue \div 10 = 0 THEN m1 ELSE FloatIntLoop(m1, intValue \div 10)

printFloat(m, spec, value) ==
    IF value.cls \in {"nan", "inf"}
    THEN LET m1 == IF value.neg THEN printChar(m, "-") ELSE m
             upper == spec.s = "SPEC_UPPER_F"
         IN  printString(m1, spec,
                         IF value.cls = "nan"
                         THEN (IF upper THEN <<"N", "A", "N">> ELSE <<"n", "a", "n">>)
                         ELSE (IF upper THEN <<"I", "N", "F">> ELSE <<"i", "n", "f">>))
    ELSE LET precision == IF spec.precision < 0 THEN 6 ELSE spec.precision
             intValue == value.num \div value.den
             fracNum == value.num % value.den
             \* intValue >= 0.0 also holds for the integer part -0.0
             m1 == printSign(m, spec, ~value.neg \/ intValue = 0)
             signChars == m1.pos - m.pos
             startPos == m1.pos
             isSpecG == spec.s \in {"SPEC_LOWER_G", "SPEC_UPPER_G"}
                        /\ ~spec.zeroPrefixedOrForceDecimal
             fr == IF fracNum # 0 \/ spec.zeroPrefixedOrForceDecimal
                   THEN FracLoop(m1, RoundHalfAway(fracNum * Pow10(precision), value.den),
                                 0, precision, 0, isSpecG)
                   ELSE [m |-> m1, printed |-> 0]
             m2 == IF fr.printed > 0 \/ spec.zeroPrefixedOrForceDecimal
                   THEN printChar(fr.m, ".") ELSE fr.m
             m3 == reverseString(FloatIntLoop(m2, intValue), startPos)
         IN  padString(m3, m3.pos - startPos, signChars, spec)

\* the mantissa is printed without width; the exponent as "%+03.2d"
printScientific(m, spec, value) ==
    LET mantSpec == [spec EXCEPT !.length = "hh",
                                 !.s = CASE spec.s = "SPEC_LOWER_E" -> "SPEC_LOWER_F"
                                         [] spec.s = "SPEC_UPPER_E" -> "SPEC_UPPER_F"
                                         [] OTHER -> spec.s,
                                 !.width = -1]
        expSpec == [initPrintSpec EXCEPT !.forcePlusMinus = TRUE,
                                         !.leftPadWithZeroes = TRUE,
                                         !.precision = 2, !.width = 3]
        exponent == Log10Floor(value.num, value.den)
        mantissa == [value EXCEPT !.den = value.den * Pow10(exponent)]
        m1 == printFloat(m, mantSpec, mantissa).m
        m2 == printChar(m1, IF spec.s \in {"SPEC_UPPER_E", "SPEC_UPPER_G"} THEN "E" ELSE "e")
    IN  printLong(m2, expSpec, IntToLong(exponent))

\* printShortestFloat stores the precision it derives into the directive's spec
ShortestSpec(spec, value) ==
    LET precision == IF spec.precision < 0 THEN 6
                     ELSE IF spec.precision = 0 THEN 1 ELSE spec.precision
        exponent == Log10Floor(value.num, value.den)
    IN  IF precision > exponent /\ exponent >= -4
        THEN [spec EXCEPT !.precision = precision - (exponent + 1)]
        ELSE [spec EXCEPT !.precision = precision - 1]

printShortestFloat(m, spec, value) ==
    LET precision == IF spec.precision < 0 THEN 6
                     ELSE IF spec.precision = 0 THEN 1 ELSE spec.precision
        exponent == Log10Floor(value.num, value.den)
    IN  IF precision > exponent /\ exponent >= -4
        THEN printFloat(m, ShortestSpec(spec, value), value)
        ELSE printScientific(m, ShortestSpec(spec, value), value)

----------------------------------------------------------------------------
(* The calls explored: templates, arguments and capacities *)

FlagStrs ==
    {<<>>, <<"-">>, <<"+">>, <<" ">>, <<"#">>, <<"0">>,
     <<"+", "0">>, <<"-", "0">>, <<"#", "0">>, <<" ", "+">>}

WidthStrs == {<<>>, <<DigitChars[FieldWidth + 1]>>}

Dir(f, w, p, l, c) == <<"%">> \o f \o w \o p \o l \o <<c>>

IntDirectives ==
    {Dir(f, w, p, <<>>, c) :
        f \in FlagStrs, w \in WidthStrs, p \in {<<>>, <<".", "0">>},
        c \in {"d", "u", "o", "x"}}
    \cup {Dir(f, w, <<>>, <<>>, c) :
        f \in {<<>>, <<"+">>, <<"#", "0">>}, w \in WidthStrs, c \in {"i", "X"}}
    \cup {Dir(f, w, <<".", "3">>, <<>>, c) :
        f \in {<<>>, <<"-">>, <<"0">>}, w \in WidthStrs, c \in {"d", "u", "o", "x"}}

LengthDirectives ==
    {Dir(<<>>, <<>>, <<>>, l, c) :
        l \in {<<>>, <<"h">>, <<"h", "h">>, <<"h", "l">>, <<"l">>},
        c \in {"d", "u", "o", "x"}}

StringDirectives ==
    {Dir(f, w, p, <<>>, "s") :
        f \in {<<>>, <<"-">>, <<"0">>}, w \in WidthStrs,
        p \in {<<>>, <<".">>, <<".", "2">>}}

CharDirectives == {Dir(f, w, <<>>, <<>>, "c") : f \in {<<>>, <<"-">>}, w \in WidthStrs}

\* unknown conversion characters, a second wide marker, templates ending
\* inside a directive
InvalidDirectives ==
    {<<"%", "q">>, <<"%", "l", "l", "d">>, <<"%">>, <<"%", "-">>,
     <<"%", DigitChars[FieldWidth + 1]>>, <<"%", ".">>, <<"%", "h", "p">>,
     <<"%", "+", "0", DigitChars[FieldWidth + 1], ".", "2", "n">>}

StarDirectives == {<<"%", "*", "d">>, <<"%", "-", "*", "d">>, <<"%", ".", "*", "d">>}

LiteralTemplates ==
    {<<>>, <<"a">>, <<"a", "b">>, <<"a", "b", "c">>, <<"%", "%">>,
     <<"a", "%", "%", "b">>}

InContext(d) == {d, <<"a">> \o d \o <<"b">>}

SignedArgs == {IntToLong(i) : i \in {0, 7, -3, 12, 128}}

UnsignedArgs == {IntToLong(i) : i \in {0, 7, 12, 255}}

\* int and unsigned int arguments: 128, 300, 32768, 40000, -3 and 2^31
NarrowArgs == {IntToLong(i) : i \in {128, 300, 32768, 40000, -3}} \cup {<<0, 0, 32768, 0>>}

\* long and unsigned long arguments: 128, -3 and 2^32 + 5
WideArgs == {IntToLong(128), IntToLong(-3), <<0, 1, 0, 5>>}

\* the arguments of the type the directive's length modifier declares
LengthArgs(d) == IF d[2] = "l" THEN WideArgs ELSE NarrowArgs

StringArgs == {<<>>, <<"h", "i">>, <<"h", "e", "l", "l", "o">>}

FloatDirectives ==
    {Dir(f, w, p, <<>>, c) :
        f \in {<<>>, <<"-">>, <<"+">>, <<"#">>, <<"0">>}, w \in WidthStrs,
        p \in {<<>>, <<".", "0">>, <<".", "1">>}, c \in {"f", "e", "g"}}
    \cup {Dir(<<>>, w, <<".", "1">>, <<>>, c) : w \in WidthStrs, c \in {"F", "E", "G"}}

\* the finite value (-1)^neg * q / 4
Quarters(neg, q) == [cls |-> "finite", neg |-> neg, num |-> q, den |-> 4]

\* 2.5, -12.5, 100.0
FiniteArgs == {Quarters(FALSE, 10), Quarters(TRUE, 50), Quarters(FALSE, 400)}

\* 0.0, -0.75, and the NaNs and infinities of either sign: f and F only (e, E,
\* g and G take the logarithm of the value and divide by a single-precision
\* power of ten, which is exact for the magnitudes from 1 on)
FixedOnlyArgs ==
    {Quarters(FALSE, 0), Quarters(TRUE, 3)}
    \cup {[cls |-> c, neg |-> n, num |-> 0, den |-> 1] : c \in {"nan", "inf"}, n \in BOOLEAN}

IsFixedDirective(d) == d[Len(d)] \in {"f", "F"}

StarArgs == {IntToLong(i) : i \in {-2, 0, FieldWidth}}

\* the examples of the documentation and of the tests in main
ExampleCases ==
    {[fmt |-> <<"%", "0", "7", ".", "1", "0", "s">>,
      args |-> <<<<"h", "e", "l", "l", "o">>>>],
     [fmt |-> <<"%", "0", "1", "0", ".", "7", "s">>,
      args |-> <<<<"w", "o", "r", "l", "d", ".", ".", ".", ".", ".", ".", ".", ".", ".", ".">>>>],
     [fmt |-> <<"%", "1", "0", "d">>,
      args |-> <<IntToLong(10)>>],
     [fmt |-> <<"%", "-", "1", "0", "d">>,
      args |-> <<IntToLong(10)>>],
     [fmt |-> <<"%", "0", "1", "0", "d">>,
      args |-> <<IntToLong(10)>>],
     [fmt |-> <<"%", "+", "0", "1", "0", "d">>,
      args |-> <<IntToLong(10)>>],
     [fmt |-> <<"%", ".", "7", "d">>,
      args |-> <<IntToLong(32768)>>],
     [fmt |-> <<"%", "-", "0", ".", "7", "d">>,
      args |-> <<IntToLong(32768)>>],
     [fmt |-> <<"%", "1", "0", "s">>,
      args |-> <<<<"t", "e", "s", "t">>>>],
     [fmt |-> <<"%", "-", "1", "0", "s">>,
      args |-> <<<<"t", "e", "s", "t">>>>]}

\* templates with several directives
SequenceCases ==
    {[fmt |-> <<"%", "+", "0", "4", "d", "%", "d">>,
      args |-> <<IntToLong(12), IntToLong(7)>>],
     [fmt |-> <<"%", "-", "4", "d", "|", "%", "x">>,
      args |-> <<IntToLong(7), IntToLong(255)>>],
     [fmt |-> <<"%", "0", "4", "d", "%", "4", "d">>,
      args |-> <<IntToLong(-3), IntToLong(7)>>],
     [fmt |-> <<"%", "#", "x", "%", "x">>,
      args |-> <<IntToLong(255), IntToLong(255)>>],
     [fmt |-> <<"%", "h", "h", "d", "%", "d">>,
      args |-> <<IntToLong(300), IntToLong(300)>>],
     [fmt |-> <<"%", "*", "d", "%", "d">>,
      args |-> <<IntToLong(4), IntToLong(7), IntToLong(12)>>],
     [fmt |-> <<"%", ".", "*", "d", "%", "d">>,
      args |-> <<IntToLong(0), IntToLong(0), IntToLong(0)>>],
     [fmt |-> <<"%", ".", "2", "s", "%", "s">>,
      args |-> <<<<"h", "e", "l", "l", "o">>, <<"h", "i">>>>],
     [fmt |-> <<"%", "-", "4", "s", "%", "c">>,
      args |-> <<<<"h", "i">>, IntToLong(84)>>],
     [fmt |-> <<"%", ".", "1", "g", "%", "d">>,
      args |-> <<Quarters(FALSE, 10), IntToLong(7)>>],
     [fmt |-> <<"%", ".", "1", "g", "%", "s">>,
      args |-> <<Quarters(FALSE, 400), <<"h", "e", "l", "l", "o">>>>],
     [fmt |-> <<"%", "g", "%", ".", "0", "f">>,
      args |-> <<Quarters(FALSE, 10), Quarters(FALSE, 10)>>],
     [fmt |-> <<"%", "4", "c", "%", "c">>,
      args |-> <<IntToLong(84), IntToLong(84)>>],
     [fmt |-> <<"%", "d", "%", "%", "%", "d">>,
      args |-> <<IntToLong(7), IntToLong(12)>>],
     [fmt |-> <<"%", "l", "d", "%", "d">>,
      args |-> <<<<0, 1, 0, 5>>, IntToLong(-3)>>],
     [fmt |-> <<"%", "c", "%", "c", "%", "c">>,
      args |-> <<IntToLong(84), IntToLong(84), IntToLong(84)>>]}

IsSignedDirective(d) == d[Len(d)] \in {"d", "i"}

Cases ==
    {[fmt |-> t, args |-> <<>>] : t \in LiteralTemplates}
    \cup ExampleCases
    \cup SequenceCases
    \cup UNION {{[fmt |-> t, args |-> <<v>>] :
                    t \in InContext(d),
                    v \in IF IsSignedDirective(d) THEN SignedArgs ELSE UnsignedArgs} :
                d \in IntDirectives}
    \cup UNION {{[fmt |-> t, args |-> <<v>>] : t \in InContext(d), v \in LengthArgs(d)} :
                d \in LengthDirectives}
    \cup UNION {{[fmt |-> t, args |-> <<v>>] : t \in InContext(d), v \in StringArgs} :
                d \in StringDirectives}
    \cup UNION {{[fmt |-> t, args |-> <<IntToLong(84)>>] : t \in InContext(d)} :
                d \in CharDirectives}
    \cup UNION {{[fmt |-> t, args |-> <<>>] : t \in InContext(d)} :
                d \in InvalidDirectives}
    \cup UNION {{[fmt |-> t, args |-> <<v>>] :
                    t \in InContext(d),
                    v \in FiniteArgs \cup (IF IsFixedDirective(d) THEN FixedOnlyArgs ELSE {})} :
                d \in FloatDirectives}
    \cup UNION {{[fmt |-> t, args |-> <<w, v>>] :
                    t \in InContext(d), w \in StarArgs,
                    v \in {IntToLong(i) : i \in {0, -3, 12}}} :
                d \in StarDirectives}

NoToken == [kind |-> "none", fmtStart |-> 0, outStart |-> 0, argStart |-> 0,
            specifier |-> NUL, arg |-> ZeroWord]

Init ==
    /\ \E c \in Cases : fmt = c.fmt /\ args = c.args
    /\ out_size \in 0 .. MaxCap
    /\ output = [i \in 0 .. out_size - 1 |-> JUNK]
    /\ written = {}
    /\ dropped = FALSE
    /\ fmtPos = 0
    /\ outPos = 0
    /\ argPos = 0
    /\ ret = 0
    /\ ps = initPrintSpec
    /\ tok = NoToken
    /\ paddingWritten = 0
    /\ paddingAmount = 0
    /\ pc = "loop"

----------------------------------------------------------------------------
(* myPrintf's loop: one nextToken call per action *)

\* mutant: the loop does not look at ret
LoopCondIgnoringRet == FmtAt(fmtPos) # NUL /\ outPos < out_size

\* while ((nextChar = fmt[fmtPos]) != 0 && outPos < out_size && !ret)
LoopCond == FmtAt(fmtPos) # NUL /\ outPos < out_size /\ ret = 0

\* the state after a formatter (or printChar) has produced result r
Apply(r) ==
    /\ output' = r.m.out
    /\ outPos' = r.m.pos
    /\ written' = r.m.wr
    /\ dropped' = r.m.drop
    /\ IF r.left
       THEN /\ pc' = "padLeft"
            /\ paddingAmount' = r.amount
            /\ paddingWritten' = 0
            /\ ret' = ret
       ELSE /\ pc' = "loop"
            /\ ret' = r.ret
            /\ UNCHANGED <<paddingAmount, paddingWritten>>

\* mutant: the count printChar returns is passed on as the status
CharResultAsCount(m1) == Returned(m1, IF m1.pos > outPos THEN 1 ELSE 0)

\* printChar(...) ? 0 : -1
CharResult(m1) == Returned(m1, IF m1.pos > outPos THEN 0 ELSE -1)

CopyLiteral ==
    /\ pc = "loop" /\ LoopCond
    /\ FmtAt(fmtPos) # "%"
    /\ Apply(CharResult(printChar(CurM, FmtAt(fmtPos))))
    /\ fmtPos' = fmtPos + 1
    /\ ps' = initPrintSpec
    /\ tok' = [NoToken EXCEPT !.kind = "literal", !.fmtStart = fmtPos, !.outStart = outPos]
    /\ UNCHANGED <<fmt, args, out_size, argPos>>

CopyPercent ==
    /\ pc = "loop" /\ LoopCond
    /\ FmtAt(fmtPos) = "%" /\ FmtAt(fmtPos + 1) = "%"
    /\ Apply(CharResult(printChar(CurM, FmtAt(fmtPos + 1))))
    /\ fmtPos' = fmtPos + 2
    /\ ps' = initPrintSpec
    /\ tok' = [NoToken EXCEPT !.kind = "percent", !.fmtStart = fmtPos, !.outStart = outPos]
    /\ UNCHANGED <<fmt, args, out_size, argPos>>

AtDirective == pc = "loop" /\ LoopCond /\ FmtAt(fmtPos) = "%" /\ FmtAt(fmtPos + 1) # "%"

Parsed == ParseDirective(fmtPos + 1, argPos)

\* ps.length != l ? (long) va_arg(args, int) : (long) va_arg(args, long)
VaSigned(spec, a) == IF spec.length # "l" THEN ToInt(a) ELSE a

\* ps.length != l ? (unsigned long) va_arg(args, unsigned int)
\*                : (unsigned long) va_arg(args, unsigned long)
VaUnsigned(spec, a) == IF spec.length # "l" THEN ToUInt(a) ELSE a

\* a directive that formats one argument: the bookkeeping common to all;
\* spec is the directive's printSpecification when its formatter returns
Consumed(kind, spec) ==
    /\ fmtPos' = Parsed.pos
    /\ argPos' = Parsed.argPos + 1
    /\ ps' = spec
    /\ tok' = [kind |-> kind, fmtStart |-> fmtPos, outStart |-> outPos,
               argStart |-> argPos, specifier |-> Parsed.specifier, arg |-> args[Parsed.argPos + 1]]
    /\ UNCHANGED <<fmt, args, out_size>>

DirectiveSigned ==
    /\ AtDirective
    /\ Parsed.specifier \in {"d", "i"}
    /\ Apply(printLong(CurM, Parsed.spec, VaSigned(Parsed.spec, args[Parsed.argPos + 1])))
    /\ Consumed("directive", Parsed.spec)

DirectiveUnsigned ==
    /\ AtDirective
    /\ Parsed.specifier = "u"
    /\ \E garbageNegative \in BOOLEAN :
          Apply(printUnsignedLong(CurM, Parsed.spec,
                         VaUnsigned(Parsed.spec, args[Parsed.argPos + 1]),
                                  garbageNegative))
    /\ Consumed("directive", Parsed.spec)

DirectiveOctal ==
    /\ AtDirective
    /\ Parsed.specifier = "o"
    /\ \E garbageNegative \in BOOLEAN :
          Apply(printOctal(CurM, Parsed.spec,
                         VaUnsigned(Parsed.spec, args[Parsed.argPos + 1]), garbageNegative))
    /\ Consumed("directive", Parsed.spec)

DirectiveHex ==
    /\ AtDirective
    /\ Parsed.specifier \in {"x", "X"}
    /\ \E garbageNegative \in BOOLEAN :
          Apply(printHex(CurM, Parsed.spec,
                         VaUnsigned(Parsed.spec, args[Parsed.argPos + 1]), garbageNegative))
    /\ Consumed("directive", Parsed.spec)

DirectiveFloat ==
    /\ AtDirective
    /\ Parsed.specifier \in {"f", "F"}
    /\ Apply(printFloat(CurM, Parsed.spec, args[Parsed.argPos + 1]))
    /\ Consumed("directive", Parsed.spec)

DirectiveScientific ==
    /\ AtDirective
    /\ Parsed.specifier \in {"e", "E"}
    /\ Apply(printScientific(CurM, Parsed.spec, args[Parsed.argPos + 1]))
    /\ Consumed("directive", Parsed.spec)

DirectiveShortest ==
    /\ AtDirective
    /\ Parsed.specifier \in {"g", "G"}
    /\ Apply(printShortestFloat(CurM, Parsed.spec, args[Parsed.argPos + 1]))
    /\ Consumed("directive", ShortestSpec(Parsed.spec, args[Parsed.argPos + 1]))

DirectiveString ==
    /\ AtDirective
    /\ Parsed.specifier = "s"
    /\ Apply(printString(CurM, Parsed.spec, args[Parsed.argPos + 1]))
    /\ Consumed("directive", Parsed.spec)

\* the character of a code (the calls explored pass 'T')
CharOf(code) == IF code = 84 THEN "T" ELSE "?"

DirectiveChar ==
    /\ AtDirective
    /\ Parsed.specifier = "c"
    /\ Apply(CharResult(printChar(CurM, CharOf(LongToInt(ToInt(args[Parsed.argPos + 1]))))))
    /\ Consumed("directive", Parsed.spec)

\* switch (specifier): the formatter called for conversion character c, with
\* the argument as va_arg fetches it (where the code leaves a return value
\* indeterminate it is taken as non-negative here)
Format(m, spec, c, arg) ==
    CASE c \in {"d", "i"} -> printLong(m, spec, VaSigned(spec, arg))
      [] c = "u" -> printUnsignedLong(m, spec, VaUnsigned(spec, arg), FALSE)
      [] c = "o" -> printOctal(m, spec, VaUnsigned(spec, arg), FALSE)
      [] c \in {"x", "X"} -> printHex(m, spec, VaUnsigned(spec, arg), FALSE)
      [] c \in {"f", "F"} -> printFloat(m, spec, arg)
      [] c \in {"e", "E"} -> printScientific(m, spec, arg)
      [] c \in {"g", "G"} -> printShortestFloat(m, spec, arg)
      [] c = "s" -> printString(m, spec, arg)
      [] c = "c" -> LET m1 == printChar(m, CharOf(LongToInt(ToInt(arg))))
                    IN  Returned(m1, IF m1.pos > m.pos THEN 0 ELSE -1)

\* default: of the switch: no argument is fetched, nothing is written
DirectiveInvalid ==
    /\ AtDirective
    /\ SpecifierOf(Parsed.specifier) = "SPEC_DEFAULT"
    /\ ret' = -1
    /\ fmtPos' = Parsed.pos
    /\ argPos' = Parsed.argPos
    /\ ps' = Parsed.spec
    /\ tok' = [NoToken EXCEPT !.kind = "invalid", !.fmtStart = fmtPos,
                              !.outStart = outPos, !.specifier = Parsed.specifier]
    /\ UNCHANGED <<fmt, args, out_size, output, written, dropped, outPos,
                   paddingWritten, paddingAmount, pc>>

\* one iteration of: for (paddingWritten = 0; paddingWritten < paddingAmount;)
\*                       paddingWritten += printChar(output, ' ', outPos, outSize);
PadLeftStep ==
    /\ pc = "padLeft"
    /\ paddingWritten < paddingAmount
    /\ LET m1 == printChar(CurM, " ")
       IN  /\ output' = m1.out
           /\ outPos' = m1.pos
           /\ written' = m1.wr
           /\ dropped' = m1.drop
           /\ paddingWritten' = paddingWritten + (m1.pos - outPos)
    /\ UNCHANGED <<fmt, args, out_size, fmtPos, argPos, ret, ps, tok, paddingAmount, pc>>

\* the loop is left; padString returns, and so do the formatter and nextToken
PadLeftExit ==
    /\ pc = "padLeft"
    /\ ~(paddingWritten < paddingAmount)
    /\ ret' = IF paddingAmount # paddingWritten THEN -1 ELSE 0
    /\ pc' = "loop"
    /\ UNCHANGED <<fmt, args, out_size, output, written, dropped, fmtPos, outPos,
                   argPos, ps, tok, paddingWritten, paddingAmount>>

\* out_size - 1 is a size_t: for out_size = 0 it is the largest size_t.
\* outPos - 1 - 1 is an unsigned int: below 2 it wraps (2^32 - 2 reads -2 here).
TerminatorIndex ==
    IF out_size = 0 \/ outPos < out_size - 1 THEN outPos ELSE outPos - 2

\* The loop is over: null-terminate and return ret.  A store 4 GiB past
\* the buffer either hits mapped memory or ends the process.
Finish ==
    /\ pc = "loop" /\ ~LoopCond
    /\ LET m1 == Store(CurM, TerminatorIndex, NUL)
       IN  /\ output' = m1.out
           /\ written' = m1.wr
    /\ pc' \in IF TerminatorIndex < 0 THEN {"done", "crashed"} ELSE {"done"}
    /\ UNCHANGED <<fmt, args, out_size, dropped, fmtPos, outPos, argPos, ret, ps, tok,
                   paddingWritten, paddingAmount>>

Next ==
    \/ CopyLiteral
    \/ CopyPercent
    \/ DirectiveSigned
    \/ DirectiveUnsigned
    \/ DirectiveOctal
    \/ DirectiveHex
    \/ DirectiveFloat
    \/ DirectiveScientific
    \/ DirectiveShortest
    \/ DirectiveString
    \/ DirectiveChar
    \/ DirectiveInvalid
    \/ PadLeftStep
    \/ PadLeftExit
    \/ Finish

Spec == Init /\ [][Next]_vars

\* the call is the only thread of control and runs whenever it can
FairSpec == Spec /\ WF_vars(Next)

----------------------------------------------------------------------------
(* Vocabulary of the properties *)

\* the call has returned to its caller
Returned2Caller == pc = "done"

\* the bytes buf[0 .. k-1] as a sequence
Content(buf, k) == [i \in 1 .. k |-> buf[i - 1]]

HasNul(buf) == \E i \in DOMAIN buf : buf[i] = NUL

\* the C string held by a buffer that contains a null byte
StringOf(buf) ==
    Content(buf, CHOOSE i \in DOMAIN buf : buf[i] = NUL /\ \A j \in 0 .. i - 1 : buf[j] # NUL)

\* a directive has been dispatched and its formatter has returned
DirectiveReturned == pc = "loop" /\ tok.kind = "directive"

\* what the last directive left in the buffer, from where it started to the cursor
Field == [i \in 1 .. outPos - tok.outStart |-> output[tok.outStart + i - 1]]

Repeat(c, n) == [i \in 1 .. n |-> c]

Min(a, b) == IF a < b THEN a ELSE b

\* reference rendering of a magnitude (a word), most significant digit first
RECURSIVE RefDigits(_, _, _)
RefDigits(n, base, digits) ==
    LET d == UDivMod(n, base)
    IN  IF d.quot = ZeroWord THEN <<digits[d.rem + 1]>>
        ELSE RefDigits(d.quot, base, digits) \o <<digits[d.rem + 1]>>

\* reference sign of a signed conversion: "-", else "+" if forced, else " " if asked
RefSign(v, spec) ==
    IF IsNegative(v) THEN <<"-">>
    ELSE IF spec.forcePlusMinus THEN <<"+">>
    ELSE IF spec.spacePrefixPositiveNumber THEN <<" ">>
    ELSE <<>>

IntegerConversions == {"d", "i", "u", "o", "x", "X"}

ImplementedConversions ==
    {"d", "i", "u", "o", "x", "X", "f", "F", "e", "E", "g", "G", "c", "s"}

\* the value an integer directive renders: its argument after the length modifier
RenderedValue ==
    IF tok.specifier \in {"d", "i"} THEN SignedCast(ps, VaSigned(ps, tok.arg))
    ELSE wrapValueToSize(ps, VaUnsigned(ps, tok.arg))

BaseOf(c) == IF c = "o" THEN 8 ELSE IF c \in {"x", "X"} THEN 16 ELSE 10

\* reference digit string of the value the last integer directive rendered
ValueDigits ==
    RefDigits(IF tok.specifier \in {"d", "i"} /\ IsNegative(RenderedValue)
              THEN Negate(RenderedValue) ELSE RenderedValue,
              BaseOf(tok.specifier),
              IF tok.specifier = "X" THEN UpperDigitChars ELSE DigitChars)

----------------------------------------------------------------------------
(* C1: a render call never stores through the buffer pointer at an index    *)
(* below 0 or at or beyond the capacity out_size.                           *)
WritesStayInBuffer == \A i \in written : i >= 0 /\ i < out_size

(* C2: with capacity at least 1, when render has returned there is a null   *)
(* byte at some index 0 .. out_size-1 (the buffer held none before).        *)
TerminatorInBuffer == (Returned2Caller /\ out_size >= 1) => HasNul(output)

(* C3: null termination keeps the k = outPos bytes the loop wrote when      *)
(* k <= out_size-1, and the first out_size-1 of them when k = out_size      *)
(* (stated for the calls whose terminator lands in the buffer).             *)
TerminationKeepsContent ==
    [][(pc = "loop" /\ pc' = "done" /\ HasNul(output'))
         => StringOf(output') = Content(output, Min(outPos, out_size - 1))]_vars

(* C4: render terminates.  Every step of the loop of myPrintf consumes      *)
(* template or returns, and leaving the fill loop returns; so the call      *)
(* terminates exactly if the left-justify fill loop, whenever it has a fill *)
(* character still to write, has room for it: without room the iteration    *)
(* changes nothing and is repeated forever instead of truncating the fill.  *)
LeftFillAdvances ==
    (pc = "padLeft" /\ paddingWritten < paddingAmount) => outPos < out_size

----------------------------------------------------------------------------
(* The outcomes of a render call *)

SuccessStatus == 0

FailureStatus == -1

\* a directive with an unknown conversion character was met (the loop stops there)
InvalidOutcome == tok.kind = "invalid"

\* output was cut short because capacity was exhausted: a character was
\* refused, or the loop stopped on a full buffer with template left
CutShortOutcome ==
    /\ ~InvalidOutcome
    /\ dropped \/ (FmtAt(fmtPos) # NUL /\ outPos >= out_size)

(* C5 as claimed: the status tells the outcomes apart.  Invalid-directive   *)
(* returns -1 and complete rendering returns 0, so a render cut short by    *)
(* capacity returns neither of the two, wherever the cut happens.           *)
StatusDistinguishesOutcomes ==
    Returned2Caller =>
        /\ InvalidOutcome => ret = FailureStatus
        /\ CutShortOutcome => ret \notin {SuccessStatus, FailureStatus}

(* C5 as amended: the status is 0 or -1, and it is -1 whenever a directive  *)
(* has an unknown conversion character; truncation has no status of its own.*)
StatusIsZeroOrMinusOne ==
    Returned2Caller =>
        /\ ret \in {SuccessStatus, FailureStatus}
        /\ InvalidOutcome => ret = FailureStatus

\* a render cut short by capacity that returned the status of invalid-directive
TruncationReturnsFailure ==
    Returned2Caller /\ CutShortOutcome /\ ret = FailureStatus /\ tok.kind = "directive"

----------------------------------------------------------------------------
\* the directive dispatched last ended on a character that is no implemented conversion
UnknownConversionDispatched ==
    tok.kind \in {"directive", "invalid"} /\ tok.specifier \notin ImplementedConversions

\* the template text of the directive dispatched last
DirectiveText == SubSeq(fmt, tok.fmtStart + 1, Min(fmtPos, Len(fmt)))

HasDoubleL(t) == \E i \in 1 .. Len(t) - 1 : t[i] = "l" /\ t[i + 1] = "l"

(* C6: a directive whose conversion character is not implemented (also a    *)
(* second "l", also the end of the template) fails: it writes nothing,      *)
(* render returns -1, and no further unit of the template is rendered.      *)
InvalidDirectiveAborts ==
    /\ [](UnknownConversionDispatched
            => (tok.kind = "invalid" /\ ret = FailureStatus /\ outPos = tok.outStart
                /\ pc \in {"loop", "done", "crashed"}))
    /\ []((tok.kind = "directive")
            => (fmtPos <= Len(fmt) /\ ~HasDoubleL(DirectiveText)))
    /\ [][UnknownConversionDispatched
            => (/\ UNCHANGED <<fmtPos, outPos, argPos, ret, tok>>
                /\ pc' \in {"done", "crashed"}
                /\ \A i \in DOMAIN output : output'[i] \in {output[i], NUL})]_vars

\* "%lld" has failed on its second "l", and "d" and what follows stay unrendered
DoubleLAborted ==
    /\ Returned2Caller /\ tok.kind = "invalid" /\ tok.specifier = "l"
    /\ ret = FailureStatus /\ FmtAt(fmtPos) = "d" /\ FmtAt(fmtPos + 1) = "b"

----------------------------------------------------------------------------
\* Sufficient capacity: the last directive is an integer conversion whose
\* formatter has returned without any character refused, and there is room
\* left for the terminator behind the field
IntegerFieldComplete ==
    /\ DirectiveReturned /\ tok.specifier \in IntegerConversions
    /\ ~dropped /\ outPos < out_size - 1

Contains(t, c) == \E i \in 1 .. Len(t) : t[i] = c

(* C7: value 0 with precision 0 emits no digit, and sign and padding are    *)
(* as for any other value: a forced "+" or space appears for d and i, and   *)
(* with width w the field has w characters.                                 *)
ZeroPrecisionKeepsSignAndPadding ==
    (IntegerFieldComplete /\ ps.precision = 0 /\ RenderedValue = ZeroWord)
        => /\ \A i \in 1 .. Len(Field) : Field[i] \notin {"1", "2", "3", "4", "5", "6", "7", "8", "9"}
           /\ (tok.specifier \in {"d", "i"} /\ ps.forcePlusMinus) => Contains(Field, "+")
           /\ (tok.specifier \in {"d", "i"} /\ ps.spacePrefixPositiveNumber)
                 => Contains(Field, " ")
           /\ ps.width > 0 => Len(Field) >= ps.width

HexPrefix == IF tok.specifier = "x" THEN <<"0", "x">> ELSE <<"0", "X">>

HasHexPrefix == Len(Field) >= 2 /\ SubSeq(Field, 1, 2) = HexPrefix

(* C8: for x and X with "#", the prefix 0x / 0X is emitted if and only if   *)
(* the value after length-modifier truncation is nonzero.                   *)
HexPrefixIffNonzero ==
    (IntegerFieldComplete /\ tok.specifier \in {"x", "X"}
        /\ ps.zeroPrefixedOrForceDecimal)
        => (Contains(Field, HexPrefix[2]) <=> RenderedValue # ZeroWord)

----------------------------------------------------------------------------
AllowedPrefixes ==
    CASE tok.specifier \in {"d", "i"} -> {<<>>, <<"+">>, <<"-">>, <<" ">>}
      [] tok.specifier \in {"x", "X"} -> {<<>>, HexPrefix}
      [] OTHER -> {<<>>}

\* the digits an integer field may show: those of the value, or none at all
\* for value 0 with precision 0
AllowedDigits ==
    {ValueDigits} \cup (IF RenderedValue = ZeroWord /\ ps.precision = 0 THEN {<<>>} ELSE {})

\* sign or prefix (if any), then fill zeros, then the digits
SignZerosDigits ==
    \E p \in AllowedPrefixes, d \in AllowedDigits, k \in 0 .. Len(Field) :
        Field = p \o Repeat("0", k) \o d

ZeroFilledInteger ==
    tok.kind = "directive" /\ tok.specifier \in IntegerConversions
    /\ ps.leftPadWithZeroes /\ ~ps.leftJustify

\* the sign or prefix the value calls for: the sign of a signed conversion,
\* 0x / 0X for a nonzero value under "#"
ExpectedLead ==
    CASE tok.specifier \in {"d", "i"} -> RefSign(RenderedValue, ps)
      [] tok.specifier \in {"x", "X"} /\ ps.zeroPrefixedOrForceDecimal
            /\ RenderedValue # ZeroWord -> HexPrefix
      [] OTHER -> <<>>

\* whatever was written of the field starts with the sign or prefix
LeadFirst ==
    \A i \in 1 .. Min(Len(Field), Len(ExpectedLead)) : Field[i] = ExpectedLead[i]

(* C9: for every integer conversion, width and value, with the "0" flag and *)
(* right justification no fill zero precedes the sign or the hex prefix     *)
(* (whatever the capacity), and a field that was written without a          *)
(* character refused is sign or prefix, then the fill zeros, then the       *)
(* digits.                                                                  *)
ZeroFillAfterSign ==
    (DirectiveReturned /\ ZeroFilledInteger)
        => (LeadFirst /\ (~dropped => SignZerosDigits))

\* "%+04d" of 12 has given "+012"
PlusZeroFilled ==
    /\ IntegerFieldComplete /\ ZeroFilledInteger /\ tok.specifier = "d"
    /\ ps.forcePlusMinus /\ ps.width = FieldWidth /\ tok.arg = IntToLong(12)
    /\ Field = <<"+">> \o Repeat("0", FieldWidth - 3) \o <<"1", "2">>

----------------------------------------------------------------------------
\* reference unpadded rendering of a signed decimal: sign followed by digits
SignedRendering == RefSign(RenderedValue, ps) \o ValueDigits

(* C10: a signed-decimal directive with width w, without "-" and "0", whose *)
(* unpadded rendering s is shorter than w writes, given sufficient          *)
(* capacity, w - |s| spaces followed by s.                                  *)
RightJustifiedSigned ==
    (IntegerFieldComplete /\ tok.specifier \in {"d", "i"}
        /\ ~ps.leftJustify /\ ~ps.leftPadWithZeroes /\ ps.precision = -1
        /\ Len(SignedRendering) < ps.width)
        => Field = Repeat(" ", ps.width - Len(SignedRendering)) \o SignedRendering

----------------------------------------------------------------------------
(* Reference renderings: a directive rendered on its own into a buffer     *)
(* that is large enough for it                                             *)

LargeCap == 3 * MaxCap

Scratch ==
    [out |-> [i \in 0 .. LargeCap - 1 |-> JUNK], pos |-> 0, wr |-> {}, drop |-> FALSE,
     cap |-> LargeCap]

\* the machine when the formatter has returned: the left-justify fill loop,
\* having room, writes its `amount` spaces
Filled(r) == IF r.left THEN PadWriteLoop(r.m, " ", 0, r.amount) ELSE r.m

Written(m) == Content(m.out, m.pos)

Max(a, b) == IF a > b THEN a ELSE b

\* Sufficient capacity: the last directive's formatter has returned success
\* without any character refused, and there is room for the terminator
FieldComplete == DirectiveReturned /\ ~dropped /\ ret = 0 /\ outPos < out_size - 1

\* what the directive renders without its width
UnpaddedRendering ==
    Written(Filled(Format(Scratch, [ps EXCEPT !.width = -1], tok.specifier, tok.arg)))

\* the buffer has room for a field of n characters and the terminator
RoomFor(n) == out_size - tok.outStart > n

WidthConversions == {"c", "s", "d", "i", "u", "o", "x", "X", "f", "F", "e", "E"}

(* C11: width is a minimum field size: given sufficient capacity, a         *)
(* directive c, s, d, i, u, o, x, X, f, F, e or E with width w whose        *)
(* unpadded rendering (sign and 0x prefix included) has L characters writes *)
(* a field of exactly max(w, L) characters.                                 *)
WidthIsMinimumFieldSize ==
    (FieldComplete /\ tok.specifier \in WidthConversions /\ ps.width >= 0
        /\ RoomFor(Max(ps.width, Len(UnpaddedRendering))))
        => Len(Field) = Max(ps.width, Len(UnpaddedRendering))

----------------------------------------------------------------------------
\* the digits of the value, left-padded with zeros to the precision
PrecisionDigits == Repeat("0", ps.precision - Len(ValueDigits)) \o ValueDigits

(* C12: for d, i, o, u, x, X a precision p is the minimum number of digits: *)
(* given sufficient capacity, the field without width and "#" is the sign   *)
(* followed by the value's digits left-padded with zeros to p digits (never *)
(* fewer digits than the value has); and with a precision the "0" flag is   *)
(* ignored, so a right-justified field wider than its digits starts with a  *)
(* space.                                                                   *)
PrecisionIsMinimumDigits ==
    (FieldComplete /\ tok.specifier \in IntegerConversions /\ ps.precision > 0
        /\ RoomFor(Max(ps.width, Len(ExpectedLead) + Len(PrecisionDigits))))
        => /\ (ps.width < 0 /\ ~ps.zeroPrefixedOrForceDecimal)
                 => Field = ExpectedLead \o PrecisionDigits
           /\ (ps.leftPadWithZeroes /\ ~ps.leftJustify /\ ExpectedLead = <<>>
                 /\ ps.width > Len(PrecisionDigits))
                 => (Len(Field) > 0 /\ Field[1] = " ")

----------------------------------------------------------------------------
(* Reading a field back as a number *)

\* acc * base + d on words, wrapping at 2^64
MulAdd(acc, base, d) ==
    LET n4 == acc[4] * base + d
        n3 == acc[3] * base + (n4 \div 65536)
        n2 == acc[2] * base + (n3 \div 65536)
        n1 == acc[1] * base + (n2 \div 65536)
    IN  <<n1 % 65536, n2 % 65536, n3 % 65536, n4 % 65536>>

IsDigitOf(c, base) ==
    \E i \in 1 .. base : DigitChars[i] = c \/ UpperDigitChars[i] = c

DigitValue(c) == (CHOOSE i \in 1 .. 16 : DigitChars[i] = c \/ UpperDigitChars[i] = c) - 1

AllDigits(t, base) == \A i \in 1 .. Len(t) : IsDigitOf(t[i], base)

RECURSIVE ParseLoop(_, _, _, _)
ParseLoop(t, i, acc, base) ==
    IF i > Len(t) THEN acc
    ELSE ParseLoop(t, i + 1, MulAdd(acc, base, DigitValue(t[i])), base)

\* the number a digit string denotes, most significant digit first
ParseDigits(t, base) == ParseLoop(t, 1, ZeroWord, base)

\* the bit width a length modifier declares
WidthBits(len) ==
    CASE len = "hh" -> 8 [] len = "h" -> 16 [] len = "l" -> 64 [] OTHER -> 32

\* v and a have the same low w bits
SameLowBits(v, a, w) ==
    CASE w = 8 -> v[4] % 256 = a[4] % 256
      [] w = 16 -> v[4] = a[4]
      [] w = 32 -> v[3] = a[3] /\ v[4] = a[4]
      [] OTHER -> v = a

\* 0 <= v < 2^w
InUnsignedRange(v, w) ==
    CASE w = 8 -> v[1] = 0 /\ v[2] = 0 /\ v[3] = 0 /\ v[4] < 256
      [] w = 16 -> v[1] = 0 /\ v[2] = 0 /\ v[3] = 0
      [] w = 32 -> v[1] = 0 /\ v[2] = 0
      [] OTHER -> TRUE

\* -2^(w-1) <= v < 2^(w-1), v read as a two's-complement long
InSignedRange(v, w) ==
    CASE w = 8 -> \/ v[1] = 0 /\ v[2] = 0 /\ v[3] = 0 /\ v[4] < 128
                  \/ v[1] = 65535 /\ v[2] = 65535 /\ v[3] = 65535 /\ v[4] >= 65536 - 128
      [] w = 16 -> \/ v[1] = 0 /\ v[2] = 0 /\ v[3] = 0 /\ v[4] < 32768
                   \/ v[1] = 65535 /\ v[2] = 65535 /\ v[3] = 65535 /\ v[4] >= 32768
      [] w = 32 -> \/ v[1] = 0 /\ v[2] = 0 /\ v[3] < 32768
                   \/ v[1] = 65535 /\ v[2] = 65535 /\ v[3] >= 32768
      [] OTHER -> TRUE

\* a directive without flags, width and precision
PlainSpec ==
    /\ ~ps.leftJustify /\ ~ps.forcePlusMinus /\ ~ps.spacePrefixPositiveNumber
    /\ ~ps.zeroPrefixedOrForceDecimal /\ ~ps.leftPadWithZeroes
    /\ ps.width < 0 /\ ps.precision < 0

FieldIsNegative == Len(Field) > 0 /\ Field[1] = "-"

FieldDigits == IF FieldIsNegative THEN Tail(Field) ELSE Field

\* the number the field of a plain integer directive denotes
FieldValue ==
    IF FieldIsNegative THEN Negate(ParseDigits(FieldDigits, BaseOf(tok.specifier)))
    ELSE ParseDigits(FieldDigits, BaseOf(tok.specifier))

(* C13: the length modifier wraps, it does not saturate: given sufficient   *)
(* capacity, the field of u, o, x, X denotes the number below 2^w that has  *)
(* the low w bits of the argument, and the field of d, i denotes the number *)
(* in -2^(w-1) .. 2^(w-1)-1 that has the low w bits of the argument, with   *)
(* w = 8 for hh, 16 for h, 64 for l, 32 for hl and no modifier.             *)
LengthModifierWraps ==
    (FieldComplete /\ tok.specifier \in IntegerConversions /\ PlainSpec)
        => /\ Len(FieldDigits) > 0
           /\ AllDigits(FieldDigits, BaseOf(tok.specifier))
           /\ SameLowBits(FieldValue, tok.arg, WidthBits(ps.length))
           /\ IF tok.specifier \in {"d", "i"}
              THEN /\ InSignedRange(FieldValue, WidthBits(ps.length))
                   /\ FieldIsNegative => IsNegative(FieldValue)
              ELSE /\ InUnsignedRange(FieldValue, WidthBits(ps.length))
                   /\ ~FieldIsNegative

\* "%hhd" of 128 has given "-128"
SignedCharWrapped ==
    /\ FieldComplete /\ tok.specifier = "d" /\ ps.length = "hh" /\ PlainSpec
    /\ tok.arg = IntToLong(128) /\ Field = <<"-", "1", "2", "8">>

----------------------------------------------------------------------------
\* the call render("%07.10s", "hello") has rendered its directive, with
\* sufficient capacity
HelloExampleRendered ==
    /\ fmt = <<"%", "0", "7", ".", "1", "0", "s">>
    /\ args = <<<<"h", "e", "l", "l", "o">>>>
    /\ FieldComplete /\ RoomFor(7)

(* C14 as claimed: "%07.10s" of "hello" yields exactly "hello": the width 7 *)
(* adds no padding.                                                         *)
HelloExampleUnpadded ==
    HelloExampleRendered => Field = <<"h", "e", "l", "l", "o">>

(* C14 as amended: "%07.10s" of "hello" yields "  hello": the precision 10  *)
(* truncates nothing, and the width 7 exceeds the 5 characters of the       *)
(* string, so two fill spaces precede it (spaces, although "0" is set).     *)
HelloExamplePadded ==
    HelloExampleRendered => Field = <<" ", " ", "h", "e", "l", "l", "o">>

\* the example has been rendered and the call has returned "  hello"
HelloExampleReturned ==
    /\ fmt = <<"%", "0", "7", ".", "1", "0", "s">> /\ RoomFor(7)
    /\ Returned2Caller /\ ret = 0 /\ ~dropped
    /\ StringOf(output) = <<" ", " ", "h", "e", "l", "l", "o">>

----------------------------------------------------------------------------
\* the characters of its argument an s directive emits: the first p with
\* precision p, all of them without
EmittedString ==
    SubSeq(tok.arg, 1, IF ps.precision >= 0 THEN Min(ps.precision, Len(tok.arg))
                       ELSE Len(tok.arg))

(* C15: given sufficient capacity, an s directive with precision p emits    *)
(* exactly the first min(p, length) characters of its argument (all of      *)
(* them when the precision is unset), and what the width adds is spaces,    *)
(* never "0", also under the "0" flag: before the characters, or after      *)
(* them with "-".                                                           *)
StringPrecisionAndSpaceFill ==
    (FieldComplete /\ tok.specifier = "s"
        /\ RoomFor(Max(ps.width, Len(EmittedString))))
        => Field = IF ps.leftJustify
                   THEN EmittedString \o Repeat(" ", ps.width - Len(EmittedString))
                   ELSE Repeat(" ", ps.width - Len(EmittedString)) \o EmittedString

\* "%010.7s" of "world.........." has given 3 spaces and "world.."
WorldExampleRendered ==
    /\ FieldComplete /\ tok.specifier = "s" /\ ps.leftPadWithZeroes
    /\ ps.width = 10 /\ ps.precision = 7 /\ Len(tok.arg) = 15
    /\ Field = <<" ", " ", " ", "w", "o", "r", "l", "d", ".", ".">>

----------------------------------------------------------------------------
\* the directive is an integer or string conversion with the "-" flag and a
\* width larger than its unpadded rendering
LeftJustifiedWide ==
    /\ FieldComplete
    /\ tok.specifier \in {"d", "i", "u", "o", "x", "X", "s"}
    /\ ps.leftJustify /\ ps.width > Len(UnpaddedRendering)
    /\ RoomFor(ps.width)

(* C16: with the "-" flag and a width w larger than the length L of the     *)
(* unpadded rendering, the field of an integer or string conversion is the  *)
(* unpadded rendering followed by exactly w - L spaces; "0" given together  *)
(* with "-" changes nothing.                                                *)
LeftJustifiedField ==
    LeftJustifiedWide
        => Field = UnpaddedRendering \o Repeat(" ", ps.width - Len(UnpaddedRendering))

----------------------------------------------------------------------------
FlagChars == {"-", "+", " ", "#", "0"}

\* the flag characters that follow the "%" of the last directive
RECURSIVE FlagRun(_)
FlagRun(i) ==
    IF i <= Len(DirectiveText) /\ DirectiveText[i] \in FlagChars
    THEN {DirectiveText[i]} \cup FlagRun(i + 1)
    ELSE {}

\* the first character of the last directive after its flags
AfterFlags ==
    LET n == Cardinality({i \in 2 .. Len(DirectiveText) :
                             \A j \in 2 .. i : DirectiveText[j] \in FlagChars})
    IN  FmtAt(tok.fmtStart + 1 + n)

InText(c) == \E i \in 1 .. Len(DirectiveText) : DirectiveText[i] = c

\* the spec of the last directive holds nothing its own text did not put
\* there: what the text leaves out is as initPrintSpec has it
SpecFromOwnText ==
    /\ ps.leftJustify = ("-" \in FlagRun(2))
    /\ ps.forcePlusMinus = ("+" \in FlagRun(2))
    /\ ps.spacePrefixPositiveNumber = (" " \in FlagRun(2) /\ "+" \notin FlagRun(2))
    /\ ps.zeroPrefixedOrForceDecimal = ("#" \in FlagRun(2))
    /\ ps.leftPadWithZeroes = ("0" \in FlagRun(2))
    /\ (~IsDigitChar(AfterFlags) /\ AfterFlags # "*") => ps.width = initPrintSpec.width
    /\ (~InText(".") /\ tok.specifier \notin {"g", "G"})
           => ps.precision = initPrintSpec.precision
    /\ (~InText("h") /\ ~InText("l")) => ps.length = initPrintSpec.length

\* the last directive rendered alone: its own text parsed, its own argument
\* formatted into an empty buffer
RenderedAlone ==
    Written(Filled(Format(Scratch, ParseDirective(tok.fmtStart + 1, tok.argStart).spec,
                          tok.specifier, tok.arg)))

(* C17: directive state never leaks: whatever directives came before it    *)
(* (an earlier g or G, which rewrites its own precision, included), the     *)
(* spec of a directive has a flag set only if the directive's own text      *)
(* holds it, and its width unset, precision unset and length default        *)
(* unless its own text gives them; and the field it writes, given           *)
(* sufficient capacity, is the one its own text and argument give in an     *)
(* empty buffer.                                                            *)
NoLeakBetweenDirectives ==
    /\ (pc = "loop" /\ tok.kind \in {"directive", "invalid"}) => SpecFromOwnText
    /\ FieldComplete => Field = RenderedAlone

\* "%.1g%s" of 100.0 and "hello": after "1e+02", whose g left precision 0
\* in its spec, the s directive has written all of "hello"
StringAfterShortest ==
    /\ FieldComplete /\ tok.fmtStart = 4 /\ tok.specifier = "s"
    /\ Content(output, tok.outStart) = <<"1", "e", "+", "0", "2">>
    /\ Field = <<"h", "e", "l", "l", "o">>
    /\ ps.precision = -1

----------------------------------------------------------------------------
(* The whole render on a machine of its own: the loop of myPrintf from      *)
(* template position p and argument index a, up to the point where it       *)
(* stores the terminator.                                                   *)
RECURSIVE RenderLoop(_, _, _)
RenderLoop(m, p, a) ==
    IF FmtAt(p) = NUL \/ m.pos >= m.cap THEN m
    ELSE IF FmtAt(p) # "%" THEN RenderLoop(printChar(m, FmtAt(p)), p + 1, a)
    ELSE IF FmtAt(p + 1) = "%" THEN RenderLoop(printChar(m, "%"), p + 2, a)
    ELSE LET d == ParseDirective(p + 1, a)
         IN  IF SpecifierOf(d.specifier) = "SPEC_DEFAULT" THEN m
             ELSE LET r == Format(m, d.spec, d.specifier, args[d.argPos + 1])
                  IN  IF r.ret # 0 THEN Filled(r)
                      ELSE RenderLoop(Filled(r), d.pos, d.argPos + 1)

\* what the template and arguments produce with a large enough capacity
LargeRendering == Written(RenderLoop(Scratch, 0, 0))

IsPrefix(s, t) == Len(s) <= Len(t) /\ \A i \in 1 .. Len(s) : s[i] = t[i]

\* the render is over and has left a string in the buffer
StringLeft == Returned2Caller /\ HasNul(output)

(* C18: exhausting the buffer only drops trailing output: the string left   *)
(* in the buffer is a prefix of what the same template and arguments        *)
(* produce with a large enough capacity, also when capacity runs out in     *)
(* the middle of an integer's digits or during right-justification padding. *)
TruncationKeepsPrefix ==
    StringLeft => IsPrefix(StringOf(output), LargeRendering)

----------------------------------------------------------------------------
\* what a step does to the write offset, and what it leaves alone once the
\* offset has reached the capacity
CursorStep ==
    /\ 0 <= outPos /\ outPos <= out_size
    /\ 0 <= outPos' /\ outPos' <= out_size
    /\ outPos' >= outPos
    /\ (pc = "loop" /\ outPos = out_size)
           => (fmtPos' = fmtPos /\ argPos' = argPos /\ tok' = tok /\ pc' # "loop")

(* C19: the write offset is always between 0 and the capacity, it never     *)
(* decreases during a render, and once it equals the capacity the render    *)
(* loop dispatches no further template unit: the next step is the end of    *)
(* the loop.                                                                *)
CursorBoundedAndMonotonic == [][CursorStep]_vars

\* the offset has reached the capacity with template text left, and the
\* render has ended there
StoppedAtCapacity ==
    /\ Returned2Caller /\ ret = 0
    /\ out_size > 2 /\ outPos = out_size
    /\ FmtAt(fmtPos) # NUL

====
